---------------------------- MODULE Spec2Model ----------------------------
(***************************************************************************)
(* Content authenticity analysis engine of the WhatsApp verification bot:  *)
(* FakeNewsDetector (app/fake_news_detector.py) and DeepfakeDetector       *)
(* (app/deepfake_detector.py), driven by concurrent requests that run as   *)
(* coroutines on one asyncio event loop and offload model inference to the *)
(* default thread-pool executor.                                           *)
(*                                                                         *)
(* Conventions                                                             *)
(*  - a Python str that the code converts (upper, lower, startswith) is a  *)
(*    sequence of one-character strings;                                   *)
(*  - a float score is an integer percentage, a confidence is an integer   *)
(*    number of 1/ConfUnit percent (so the mean of up to 5 frame           *)
(*    confidences is exact);                                               *)
(*  - a dict is a record, its keys are the record's DOMAIN;                *)
(*  - `running` is the coroutine that holds the event-loop thread: between *)
(*    two suspension points no other coroutine runs, executor jobs do.     *)
(***************************************************************************)
EXTENDS Integers, Sequences, FiniteSets, TLC

\* ------------------------------------------------------------------ bounds
\* largest frame count of a submitted video
MaxFrames == 2
\* largest frame count of a video submitted concurrently with another request
MaxConcFrames == 1
\* loads of the text classifier that are attempted before text requests stop
MaxLoads == 2
\* largest frame count of the long video
MaxVideoFrames == 12
\* largest number of messages in one webhook payload
MaxMessages == 2
\* largest number of status updates in one webhook payload
MaxStatuses == 1

\* -------------------------------------------------------- program constants
MinTextLen == 10
MaxTextLen == 5000
MaxSampledFrames == 5
SuspectFrames == 2

Procs == {"A", "B"}
None == "None"
ConfUnit == 3 * 4 * 5
Conf(pct) == pct * ConfUnit

\* ----------------------------------------------------------------- strings
Lowers == <<"a","b","c","d","e","f","g","h","i","j","k","l","m",
            "n","o","p","q","r","s","t","u","v","w","x","y","z">>
Uppers == <<"A","B","C","D","E","F","G","H","I","J","K","L","M",
            "N","O","P","Q","R","S","T","U","V","W","X","Y","Z">>

UpperChar(c) ==
  IF \E i \in DOMAIN Lowers : Lowers[i] = c
  THEN Uppers[CHOOSE i \in DOMAIN Lowers : Lowers[i] = c]
  ELSE c

LowerChar(c) ==
  IF \E i \in DOMAIN Uppers : Uppers[i] = c
  THEN Lowers[CHOOSE i \in DOMAIN Uppers : Uppers[i] = c]
  ELSE c

\* str.upper()
upper(s) == [i \in DOMAIN s |-> UpperChar(s[i])]

\* str.lower()
lower(s) == [i \in DOMAIN s |-> LowerChar(s[i])]

\* str.startswith(prefix)
startswith(s, prefix) ==
  /\ Len(s) >= Len(prefix)
  /\ SubSeq(s, 1, Len(prefix)) = prefix

\* ------------------------------------------------------------- text inputs
\* A text is `lead` whitespace characters, then `core` characters that begin
\* and end with a non-whitespace character, then `trail` whitespace
\* characters.
TextLen(t) == t.lead + t.core + t.trail

\* len(text.strip())
StripLen(t) == t.core

Min(a, b) == IF a <= b THEN a ELSE b

\* the truncation with a plausible slip: the last 5000 characters are kept
Truncate_tail(t) ==
  LET r == Min(t.trail, MaxTextLen)
      c == Min(t.core, MaxTextLen - r)
      l == Min(t.lead, MaxTextLen - r - c)
  IN  [lead |-> l, core |-> c, trail |-> r]

\* text[:5000]
Truncate(t) ==
  LET l == Min(t.lead, MaxTextLen)
      c == Min(t.core, MaxTextLen - l)
      r == Min(t.trail, MaxTextLen - l - c)
  IN  [lead |-> l, core |-> c, trail |-> r]

TextInputs ==
  { [lead |-> l, core |-> c, trail |-> r] :
      l \in {0, 3},
      c \in {0, MinTextLen - 1, MinTextLen, MaxTextLen + 1},
      r \in {0, 3} }

\* the texts of concurrent requests
ConcTextInputs ==
  { [lead |-> 0, core |-> c, trail |-> 3] : c \in {MinTextLen - 1, MinTextLen} }

\* `not text or len(text.strip()) < 10`
TooShort(t) == TextLen(t) = 0 \/ StripLen(t) < MinTextLen


\* -------------------------------------------------------- values and records
\* the literal of a Python str, one character per element
L_FAKE == <<"F","A","K","E">>
L_fake == <<"f","a","k","e">>
L_Fake == <<"F","a","k","e">>
L_REAL == <<"R","E","A","L">>
L_Real == <<"R","e","a","l">>
L_LABEL_0 == <<"L","A","B","E","L","_","0">>
L_LABEL_1 == <<"L","A","B","E","L","_","1">>
L_label_1 == <<"l","a","b","e","l","_","1">>
L_0 == <<"0">>
L_1 == <<"1">>
L_RELIABLE == <<"R","E","L","I","A","B","L","E">>
L_UNRELIABLE == <<"U","N","R","E","L","I","A","B","L","E">>
L_unreliable == <<"u","n","r","e","l","i","a","b","l","e">>
L_neutral == <<"n","e","u","t","r","a","l">>
L_DEEPFAKE == <<"D","E","E","P","F","A","K","E">>
L_Deepfake == <<"D","e","e","p","f","a","k","e">>
L_MANIPULATED == <<"M","A","N","I","P","U","L","A","T","E","D">>
L_insufficient_text ==
  <<"i","n","s","u","f","f","i","c","i","e","n","t","_","t","e","x","t">>
L_error == <<"e","r","r","o","r">>
L_unknown == <<"u","n","k","n","o","w","n">>
L_suspicious == <<"s","u","s","p","i","c","i","o","u","s">>
L_likely_real == <<"l","i","k","e","l","y","_","r","e","a","l">>

\* what a call hands back to its caller: a returned dict, or a raised exception
Returned(rec) == [kind |-> "record", val |-> rec]
Raised(e) == [kind |-> "raise", val |-> e]
NoOutcome == [kind |-> "none", val |-> None]

\* raw scores of a classifier, in percent
Scores == {0, 50, 100}

\* ------------------------------------------------- FakeNewsDetector (text)
\* the labels the text classifier may hand back
TextLabels ==
  { L_FAKE, L_fake, L_REAL, L_Real, L_LABEL_0, L_label_1, L_0, L_1,
    L_RELIABLE, L_unreliable, L_neutral }

\* what pipeline(text, top_k=2) may return: up to two {label, score} dicts,
\* ranked by score descending
TextPredictions ==
  {<<>>}
  \cup { <<[label |-> l, score |-> s]>> : l \in TextLabels, s \in Scores }
  \cup { <<[label |-> l, score |-> s], [label |-> L_REAL, score |-> 100 - s]>> :
           l \in {L_fake, L_LABEL_1}, s \in {50, 100} }

\* FakeNewsDetector.__init__
FakeNewsDetector_init == [pipeline |-> None, initialized |-> FALSE]

\* FakeNewsDetector._lazy_load_model: `ok` is whether pipeline(...) builds the
\* classifier; the result is the detector afterwards and the exception raised
lazy_load_model(self, ok) ==
  IF self.initialized
  THEN [self |-> self, raised |-> None, attempted |-> FALSE]
  ELSE IF ok
       THEN [self |-> [pipeline |-> "text-classification", initialized |-> TRUE],
             raised |-> None, attempted |-> TRUE]
       ELSE [self |-> self, raised |-> "ModelLoadError", attempted |-> TRUE]

\* FakeNewsDetector._generate_details (the lines of the joined string)
generate_details(label, confidence, predictions) ==
  LET interp ==
        IF confidence >= 90 THEN <<[kind |-> "confiance", level |-> "tres elevee"]>>
        ELSE IF confidence >= 70 THEN <<[kind |-> "confiance", level |-> "elevee"]>>
        ELSE IF confidence >= 50 THEN <<[kind |-> "confiance", level |-> "moderee"]>>
        ELSE <<[kind |-> "confiance", level |-> "faible"]>>
      advice ==
        IF label \in {L_FAKE, L_LABEL_1, L_1}
        THEN <<[kind |-> "conseil", text |-> "verifiez les sources"],
               [kind |-> "conseil", text |-> "recherchez des confirmations"],
               [kind |-> "conseil", text |-> "mefiez-vous des titres"]>>
        ELSE <<[kind |-> "conseil", text |-> "semble authentique"],
               [kind |-> "conseil", text |-> "verifiez le contexte"]>>
      alt ==
        IF Len(predictions) > 1
        THEN <<[kind |-> "score alternatif", label |-> predictions[2].label,
                pct |-> predictions[2].score]>>
        ELSE <<>>
  IN  interp \o advice \o alt

\* the mapping with a plausible slip: the raw label is not upper-cased
parse_predictions_no_upper(predictions) ==
  IF Len(predictions) = 0
  THEN [is_fake |-> FALSE, confidence |-> Conf(0), label |-> L_unknown,
        details |-> <<[kind |-> "aucune prediction"]>>]
  ELSE LET label == predictions[1].label
           score == predictions[1].score
       IN  [is_fake |-> label \in {L_FAKE, L_LABEL_1, L_1, L_UNRELIABLE},
            confidence |-> Conf(score), label |-> label,
            details |-> generate_details(label, score, predictions),
            all_predictions |-> predictions]

\* the mapping with a plausible slip: the verdict follows the raw score
parse_predictions_by_score(predictions) ==
  IF Len(predictions) = 0
  THEN [is_fake |-> FALSE, confidence |-> Conf(0), label |-> L_unknown,
        details |-> <<[kind |-> "aucune prediction"]>>]
  ELSE LET label == upper(predictions[1].label)
           score == predictions[1].score
       IN  [is_fake |-> score >= 50,
            confidence |-> Conf(score), label |-> label,
            details |-> generate_details(label, score, predictions),
            all_predictions |-> predictions]

\* FakeNewsDetector._parse_predictions
parse_predictions(predictions) ==
  IF Len(predictions) = 0
  THEN [is_fake |-> FALSE, confidence |-> Conf(0), label |-> L_unknown,
        details |-> <<[kind |-> "aucune prediction"]>>]
  ELSE LET top_prediction == predictions[1]
           label == upper(top_prediction.label)
           score == top_prediction.score
           is_fake0 == label \in {L_FAKE, L_LABEL_1, L_1, L_UNRELIABLE}
           is_fake == IF label \in {L_REAL, L_LABEL_0, L_0, L_RELIABLE}
                      THEN FALSE ELSE is_fake0
           confidence == score
       IN  [is_fake |-> is_fake, confidence |-> Conf(confidence), label |-> label,
            details |-> generate_details(label, confidence, predictions),
            all_predictions |-> predictions]

\* FakeNewsDetector._analyze_with_model, in the executor: `out` is what the
\* classifier call does, [raises |-> e] or [predictions |-> ...]
analyze_with_model(out) ==
  IF "raises" \in DOMAIN out
  THEN Raised(out.raises)
  ELSE Returned(parse_predictions(out.predictions))

\* what the text classifier call may do
TextClassifierOutcomes ==
  {[raises |-> "InferenceError"]} \cup { [predictions |-> ps] : ps \in TextPredictions }

ConcTextClassifierOutcomes ==
  { [raises |-> "InferenceError"],
    [predictions |-> <<[label |-> L_fake, score |-> 100]>>] }

\* analyze_text, the record of its validation branch
insufficient_text_record ==
  [is_fake |-> FALSE, confidence |-> Conf(0), label |-> L_insufficient_text,
   details |-> <<[kind |-> "texte trop court"]>>]

\* the handler with a plausible slip: the exception is passed on
analyze_text_reraise(e) == Raised(e)

\* analyze_text, `except Exception as e`
analyze_text_except(e) ==
  Returned([is_fake |-> FALSE, confidence |-> Conf(0), label |-> L_error,
            details |-> <<[kind |-> "erreur d'analyse", msg |-> e]>>])


\* ------------------------------------------------------------------ utils
M_image_jpeg == <<"i","m","a","g","e","/","j","p","e","g">>
M_IMAGE_PNG == <<"I","M","A","G","E","/","P","N","G">>
M_video_mp4 == <<"v","i","d","e","o","/","m","p","4">>
M_Audio_ogg == <<"A","u","d","i","o","/","o","g","g">>
M_application_pdf ==
  <<"a","p","p","l","i","c","a","t","i","o","n","/","p","d","f">>
M_octet_stream ==
  <<"a","p","p","l","i","c","a","t","i","o","n","/",
    "o","c","t","e","t","-","s","t","r","e","a","m">>
M_msword ==
  <<"a","p","p","l","i","c","a","t","i","o","n","/","m","s","w","o","r","d">>
M_image == <<"i","m","a","g","e">>
M_empty == <<>>
P_image == <<"i","m","a","g","e","/">>
P_video == <<"v","i","d","e","o","/">>
P_audio == <<"a","u","d","i","o","/">>

\* a Python value that is a str, and the value None
Str(s) == [type |-> "str", v |-> s]
PyNone == [type |-> "NoneType", v |-> <<>>]

\* the MIME hints a caller may pass; None is a missing hint
MimeHints ==
  { Str(m) : m \in { M_image_jpeg, M_IMAGE_PNG, M_video_mp4, M_Audio_ogg,
                     M_application_pdf, M_octet_stream, M_image, M_empty } }
  \cup {PyNone}

ConcMimeHints ==
  { Str(m) : m \in {M_image_jpeg, M_video_mp4, M_Audio_ogg, M_application_pdf} }

\* the mapping with a plausible slip: the prefixes are tested without their
\* slash
get_media_type_from_mime_bare_prefix(mime_type) ==
  IF mime_type.type # "str"
  THEN Raised("AttributeError")
  ELSE LET m == lower(mime_type.v)
       IN  IF startswith(m, SubSeq(P_image, 1, 5)) THEN Returned("image")
           ELSE IF startswith(m, SubSeq(P_video, 1, 5)) THEN Returned("video")
           ELSE IF startswith(m, SubSeq(P_audio, 1, 5)) THEN Returned("audio")
           ELSE IF m \in {M_application_pdf, M_msword} THEN Returned("document")
           ELSE Returned("unknown")

\* get_media_type_from_mime: the simplified type, or the exception that
\* mime_type.lower() raises on a value that is no str
get_media_type_from_mime(mime_type) ==
  IF mime_type.type # "str"
  THEN Raised("AttributeError")
  ELSE LET m == lower(mime_type.v)
       IN  IF startswith(m, P_image) THEN Returned("image")
           ELSE IF startswith(m, P_video) THEN Returned("video")
           ELSE IF startswith(m, P_audio) THEN Returned("audio")
           ELSE IF m \in {M_application_pdf, M_msword} THEN Returned("document")
           ELSE Returned("unknown")

\* ------------------------------------------- DeepfakeDetector (image, basic)
QualityFloor == 70
DefaultQuality == 75
EdgeCeiling == 70
QualityPenalty == 20
EdgePenalty == 30
SuspiciousFloor == 30
BasicConfidenceCap == 60

\* DeepfakeDetector.__init__
DeepfakeDetector_init == [image_pipeline |-> None, initialized |-> FALSE]

\* the loader with a plausible slip: a failed load leaves the detector
\* uninitialised, as the text detector's loader does
lazy_load_image_model_retry(self, ok) ==
  IF self.initialized
  THEN [self |-> self, attempted |-> FALSE]
  ELSE IF ok
       THEN [self |-> [image_pipeline |-> "image-classification", initialized |-> TRUE],
             attempted |-> TRUE]
       ELSE [self |-> self, attempted |-> TRUE]

\* DeepfakeDetector._lazy_load_image_model: `ok` is whether pipeline(...)
\* builds the classifier; a failure is swallowed
lazy_load_image_model(self, ok) ==
  IF self.initialized
  THEN [self |-> self, attempted |-> FALSE]
  ELSE IF ok
       THEN [self |-> [image_pipeline |-> "image-classification", initialized |-> TRUE],
             attempted |-> TRUE]
       ELSE [self |-> [self EXCEPT !.initialized = TRUE], attempted |-> TRUE]

\* the estimate with a plausible slip: a failed estimation counts as the worst
\* quality
estimate_jpeg_quality_worst(q) == IF "raises" \in DOMAIN q THEN 0 ELSE q.v

\* DeepfakeDetector._estimate_jpeg_quality: `q` is min(100, max(0,
\* int(laplacian_var / 10))), or [raises |-> ...] when a cv2 call raises
estimate_jpeg_quality(q) == IF "raises" \in DOMAIN q THEN DefaultQuality ELSE q.v

\* DeepfakeDetector._analyze_edges: `e` is the edge-pixel ratio in percent, or
\* [raises |-> ...] when a cv2 call raises
analyze_edges(e) == IF "raises" \in DOMAIN e THEN 0 ELSE e.v

\* what the two measurements may be
QualityOutcomes ==
  {[raises |-> "cv2.error"]} \cup { [v |-> q] : q \in {0, QualityFloor - 1, QualityFloor, 100} }
EdgeOutcomes ==
  {[raises |-> "cv2.error"]} \cup { [v |-> e] : e \in {0, EdgeCeiling, EdgeCeiling + 1, 100} }

\* the basic analysis with a plausible slip: the confidence is that of the
\* verdict, so a clean image is reported with a high confidence
analyze_image_basic_verdict_confidence(img, q, e) ==
  IF img = None
  THEN Raised("ValueError")
  ELSE LET jpeg_quality == estimate_jpeg_quality(q)
           s1 == IF jpeg_quality < QualityFloor THEN QualityPenalty ELSE 0
           edge_score == analyze_edges(e)
           suspicious_score == IF edge_score > EdgeCeiling THEN s1 + EdgePenalty ELSE s1
           is_fake == suspicious_score > SuspiciousFloor
       IN  Returned([is_fake |-> is_fake,
                     confidence |-> Conf(IF is_fake THEN suspicious_score
                                         ELSE 100 - suspicious_score),
                     label |-> IF is_fake THEN L_suspicious ELSE L_likely_real,
                     details |-> <<[kind |-> "resolution"],
                                   [kind |-> "qualite", pct |-> jpeg_quality],
                                   [kind |-> "analyse limitee"]>>])

\* the basic analysis with a plausible slip: the verdict threshold is not
\* strict, so the edge signal alone gives a suspect verdict
analyze_image_basic_threshold_inclusive(img, q, e) ==
  IF img = None
  THEN Raised("ValueError")
  ELSE LET jpeg_quality == estimate_jpeg_quality(q)
           s1 == IF jpeg_quality < QualityFloor THEN QualityPenalty ELSE 0
           edge_score == analyze_edges(e)
           suspicious_score == IF edge_score > EdgeCeiling THEN s1 + EdgePenalty ELSE s1
           is_fake == suspicious_score >= SuspiciousFloor
       IN  Returned([is_fake |-> is_fake,
                     confidence |-> Conf(Min(suspicious_score, BasicConfidenceCap)),
                     label |-> IF is_fake THEN L_suspicious ELSE L_likely_real,
                     details |-> <<[kind |-> "resolution"],
                                   [kind |-> "qualite", pct |-> jpeg_quality],
                                   [kind |-> "analyse limitee"]>>])

\* the basic analysis with a plausible slip: the two comparisons are not
\* strict
analyze_image_basic_inclusive(img, q, e) ==
  IF img = None
  THEN Raised("ValueError")
  ELSE LET jpeg_quality == estimate_jpeg_quality(q)
           s1 == IF jpeg_quality <= QualityFloor THEN QualityPenalty ELSE 0
           edge_score == analyze_edges(e)
           suspicious_score == IF edge_score >= EdgeCeiling THEN s1 + EdgePenalty ELSE s1
           is_fake == suspicious_score > SuspiciousFloor
       IN  Returned([is_fake |-> is_fake,
                     confidence |-> Conf(Min(suspicious_score, BasicConfidenceCap)),
                     label |-> IF is_fake THEN L_suspicious ELSE L_likely_real,
                     details |-> <<[kind |-> "resolution"],
                                   [kind |-> "qualite", pct |-> jpeg_quality],
                                   [kind |-> "analyse limitee"]>>])

\* DeepfakeDetector._analyze_image_basic: `img` is what cv2.imread returns
analyze_image_basic(img, q, e) ==
  IF img = None
  THEN Raised("ValueError")
  ELSE LET jpeg_quality == estimate_jpeg_quality(q)
           s1 == IF jpeg_quality < QualityFloor THEN QualityPenalty ELSE 0
           edge_score == analyze_edges(e)
           suspicious_score == IF edge_score > EdgeCeiling THEN s1 + EdgePenalty ELSE s1
           is_fake == suspicious_score > SuspiciousFloor
           confidence == Min(suspicious_score, BasicConfidenceCap)
           details ==
             <<[kind |-> "resolution"], [kind |-> "qualite", pct |-> jpeg_quality]>>
             \o (IF jpeg_quality < QualityFloor
                 THEN <<[kind |-> "qualite faible"]>> ELSE <<>>)
             \o (IF edge_score > EdgeCeiling
                 THEN <<[kind |-> "artefacts de bords"]>> ELSE <<>>)
             \o (IF ~is_fake THEN <<[kind |-> "aucun artefact"]>> ELSE <<>>)
             \o <<[kind |-> "analyse limitee"]>>
       IN  Returned([is_fake |-> is_fake, confidence |-> Conf(confidence),
                     label |-> IF is_fake THEN L_suspicious ELSE L_likely_real,
                     details |-> details])

\* what cv2.imread and the two measurements may be for one image
BasicInputs ==
  {[img |-> None, q |-> [raises |-> "cv2.error"], e |-> [raises |-> "cv2.error"]]}
  \cup { [img |-> "ndarray", q |-> q, e |-> e] : q \in QualityOutcomes, e \in EdgeOutcomes }

ConcBasicInputs ==
  { [img |-> "ndarray", q |-> [raises |-> "cv2.error"], e |-> [v |-> 0]],
    [img |-> "ndarray", q |-> [v |-> 0], e |-> [v |-> 100]] }

\* ------------------------------------------- DeepfakeDetector (image, model)
\* the labels the image classifier may hand back
ImageLabels ==
  { L_FAKE, L_Fake, L_REAL, L_Real, L_Deepfake, L_label_1, L_LABEL_0, L_1,
    L_MANIPULATED, L_neutral }

\* what image_pipeline(image, top_k=2) may return
ImagePredictions ==
  {<<>>}
  \cup { <<[label |-> l, score |-> s]>> : l \in ImageLabels, s \in Scores }
  \cup { <<[label |-> l, score |-> s], [label |-> L_Real, score |-> 100 - s]>> :
           l \in {L_Fake, L_Deepfake}, s \in {50, 100} }

ImageClassifierOutcomes ==
  {[raises |-> "InferenceError"]} \cup { [predictions |-> ps] : ps \in ImagePredictions }

ConcImageClassifierOutcomes ==
  { [predictions |-> ps] :
      ps \in { <<[label |-> L_Deepfake, score |-> 100]>>,
               <<[label |-> L_Real, score |-> 50]>> } }

\* the model analysis with a plausible slip: the verdict uses the label set of
\* the text detector
analyze_image_with_model_text_labels(out) ==
  IF "raises" \in DOMAIN out
  THEN Raised(out.raises)
  ELSE IF Len(out.predictions) = 0
  THEN Raised("IndexError")
  ELSE LET predictions == out.predictions
           label == upper(predictions[1].label)
           score == predictions[1].score
       IN  Returned([is_fake |-> label \in {L_FAKE, L_LABEL_1, L_1, L_UNRELIABLE},
                     confidence |-> Conf(score), label |-> label,
                     details |-> <<[kind |-> "prediction", label |-> label, pct |-> score]>>,
                     all_predictions |-> predictions])

\* DeepfakeDetector._analyze_image_with_model, in the executor
analyze_image_with_model(out) ==
  IF "raises" \in DOMAIN out
  THEN Raised(out.raises)
  ELSE IF Len(out.predictions) = 0
  THEN Raised("IndexError")
  ELSE LET predictions == out.predictions
           top == predictions[1]
           label == upper(top.label)
           score == top.score
           is_fake == label \in {L_FAKE, L_DEEPFAKE, L_LABEL_1, L_1, L_MANIPULATED}
           details ==
             <<[kind |-> "prediction", label |-> label, pct |-> score]>>
             \o (IF Len(predictions) > 1
                 THEN <<[kind |-> "alternative", label |-> predictions[2].label,
                         pct |-> predictions[2].score]>>
                 ELSE <<>>)
             \o (IF is_fake
                 THEN <<[kind |-> "signes de manipulation"], [kind |-> "verifiez la source"]>>
                 ELSE <<[kind |-> "semble authentique"], [kind |-> "aucun signe"]>>)
       IN  Returned([is_fake |-> is_fake, confidence |-> Conf(score), label |-> label,
                     details |-> details, all_predictions |-> predictions])

\* the handler with a plausible slip: the error record is given a label, as
\* the text detector's is
analyze_image_except_labelled(e) ==
  [is_fake |-> FALSE, confidence |-> Conf(0), media_type |-> "image",
   label |-> L_error, details |-> <<[kind |-> "erreur", msg |-> e]>>]

\* analyze_image, `except Exception as e`
analyze_image_except(e) ==
  [is_fake |-> FALSE, confidence |-> Conf(0), media_type |-> "image",
   details |-> <<[kind |-> "erreur", msg |-> e]>>]

\* analyze_image, `result["media_type"] = "image"`
with_media_type(result, media_type) ==
  [k \in DOMAIN result \cup {"media_type"} |->
     IF k = "media_type" THEN media_type ELSE result[k]]

\* analyze_image after the analysis: `o` is what the model or the basic
\* analysis handed back
analyze_image_result(o) ==
  IF o.kind = "raise" THEN analyze_image_except(o.val)
  ELSE with_media_type(o.val, "image")

\* ------------------------------------------------- DeepfakeDetector (video)
\* the sampler with a plausible slip: the first min(5, total_frames) frames
frame_indices_leading(total_frames) ==
  [i \in 1..Min(MaxSampledFrames, total_frames) |-> i - 1]

\* np.linspace(0, total_frames - 1, min(5, total_frames), dtype=int)
frame_indices(total_frames) ==
  LET num == Min(MaxSampledFrames, total_frames)
  IN  [i \in 1..num |->
         IF num = 1 THEN 0 ELSE ((i - 1) * (total_frames - 1)) \div (num - 1)]

RECURSIVE Sum(_)
Sum(s) == IF Len(s) = 0 THEN 0 ELSE Head(s) + Sum(Tail(s))

\* np.mean(confidences) if confidences else 0.0
avg_confidence(confidences) ==
  IF Len(confidences) = 0 THEN 0 ELSE Sum(confidences) \div Len(confidences)

\* the verdict with a plausible slip: one suspect frame is enough
video_record_any_suspect(total_frames, fps, frame_indices_, fake_count, confidences) ==
  [is_fake |-> fake_count >= 1, confidence |-> avg_confidence(confidences),
   media_type |-> "video",
   details |->
     <<[kind |-> "duree", frames |-> total_frames],
       [kind |-> "frames analysees", n |-> Len(frame_indices_)],
       [kind |-> "frames suspectes", n |-> fake_count, of |-> Len(frame_indices_)]>>]

\* the verdict with a plausible slip: the mean is taken over the sampled
\* frames, decoded or not
video_record_mean_over_sampled(total_frames, fps, frame_indices_, fake_count, confidences) ==
  [is_fake |-> fake_count >= SuspectFrames,
   confidence |-> IF Len(frame_indices_) = 0 THEN 0
                  ELSE Sum(confidences) \div Len(frame_indices_),
   media_type |-> "video",
   details |->
     <<[kind |-> "duree", frames |-> total_frames],
       [kind |-> "frames analysees", n |-> Len(frame_indices_)],
       [kind |-> "frames suspectes", n |-> fake_count, of |-> Len(frame_indices_)]>>]

\* analyze_video, the verdict after the frame loop
video_record(total_frames, fps, frame_indices_, fake_count, confidences) ==
  LET is_fake == fake_count >= SuspectFrames
      avg == avg_confidence(confidences)
      duration == IF fps > 0 THEN [num |-> total_frames, den |-> fps]
                  ELSE [num |-> 0, den |-> 1]
  IN  [is_fake |-> is_fake, confidence |-> avg, media_type |-> "video",
       details |->
         <<[kind |-> "duree", duration |-> duration, frames |-> total_frames],
           [kind |-> "frames analysees", n |-> Len(frame_indices_)],
           [kind |-> "frames suspectes", n |-> fake_count, of |-> Len(frame_indices_)],
           [kind |-> "confiance moyenne", conf |-> avg],
           IF is_fake THEN [kind |-> "manipulations detectees"]
           ELSE [kind |-> "semble authentique"]>>]

\* analyze_video, `except Exception as e`
analyze_video_except(e) ==
  [is_fake |-> FALSE, confidence |-> Conf(0), media_type |-> "video",
   details |-> <<[kind |-> "erreur", msg |-> e]>>]

\* ------------------------------------------------- DeepfakeDetector (audio)
AudioConfidence == 30

\* the audio analysis with a plausible slip: the failure record keeps the
\* confidence of the success record
analyze_audio_flat_confidence(out) ==
  [is_fake |-> FALSE, confidence |-> Conf(AudioConfidence), media_type |-> "audio",
   details |-> <<[kind |-> "analyse audio"]>>]

\* analyze_audio: `out` is what decoding and feature extraction do
analyze_audio(out) ==
  IF "raises" \in DOMAIN out
  THEN [is_fake |-> FALSE, confidence |-> Conf(0), media_type |-> "audio",
        details |-> <<[kind |-> "analyse audio non disponible", msg |-> out.raises]>>]
  ELSE [is_fake |-> FALSE, confidence |-> Conf(AudioConfidence), media_type |-> "audio",
        details |-> <<[kind |-> "duree"], [kind |-> "frequence"],
                      [kind |-> "centroide spectral"], [kind |-> "analyse audio limitee"],
                      [kind |-> "consultez un expert"]>>]

AudioOutcomes == {[raises |-> "ImportError"], [raises |-> "DecodeError"], [decoded |-> TRUE]}

\* ---------------------------------------------- DeepfakeDetector (dispatch)
\* the dispatch with a plausible slip: the unsupported-kind record is given
\* the label of the other records and loses its details
unsupported_record_labelled(media_type) ==
  [is_fake |-> FALSE, confidence |-> Conf(0), media_type |-> media_type,
   label |-> L_unknown]

\* analyze_media, the record of its `else` branch
unsupported_record(media_type) ==
  [is_fake |-> FALSE, confidence |-> Conf(0), media_type |-> media_type,
   details |-> <<[kind |-> "type de media non supporte", media_type |-> media_type]>>]

\* =================================================================== state
VARIABLES
  clients,      \* the request handlers (coroutines) of this run
  hook,         \* the webhook request each handler serves: where it is, the
                \* message at hand, the replies sent for it, the history of
                \* the processed items, the HTTP response
  fnd,          \* the FakeNewsDetector instance: pipeline, _initialized
  dfd,          \* the DeepfakeDetector instance: image_pipeline, _initialized
  txtLoadLog,   \* history: the outcome of every load of the text classifier
  imgLoadLog,   \* history: the outcome of every load of the image classifier
  files,        \* the paths that exist on disk
  running,      \* the coroutine that holds the event-loop thread, or None
  pc,           \* where each handler is
  call,         \* the entry point each handler called last, with its arguments
  loc,          \* the local variables of each handler's suspended frames
  ret,          \* what the last call handed back
  obs           \* history of the current call: classifier invoked, analysis
                \* paths taken, model load attempted, exception raised by the
                \* load or by the classifier, what the environment did in the
                \* current text, image or audio analysis, whether the video
                \* capture was opened and released, and what became of every
                \* sampled frame so far

vars == <<clients, hook, fnd, dfd, txtLoadLog, imgLoadLog, files, running, pc,
          call, loc, ret, obs>>

\* a downloaded media file, and a path where there is no file
MediaPath == [kind |-> "media", id |-> 1]
MissingPath == [kind |-> "media", id |-> 0]
\* a downloaded video of many frames
LongVideoPath == [kind |-> "media", id |-> 2]
\* f"/tmp/frame_{idx}.jpg"
temp_frame(idx) == [kind |-> "frame", id |-> idx]
Paths == {MediaPath, MissingPath}

NoLoc == [caller |-> "none"]
NoEnv == [kind |-> "none"]
NoObs == [invoked |-> FALSE, routes |-> {}, loaded |-> FALSE, raised |-> None,
          env |-> NoEnv, opened |-> FALSE, released |-> FALSE, frames |-> <<>>]
NoCall == [fn |-> "none"]

\* a handler that serves no request (stage "off": the detectors are called
\* directly; stage "idle": the webhook is served)
NoHook(stage) ==
  [stage |-> stage, request |-> [method |-> "none"], k |-> 0,
   msg |-> [type |-> "none"], replies |-> <<>>, media |-> [path |-> None],
   log |-> <<>>, response |-> NoOutcome]

InitWith(cs, media, stage) ==
  /\ clients = cs
  /\ hook = [p \in Procs |-> NoHook(stage)]
  /\ fnd = FakeNewsDetector_init
  /\ dfd = DeepfakeDetector_init
  /\ txtLoadLog = <<>>
  /\ imgLoadLog = <<>>
  /\ files = media
  /\ running = None
  /\ pc = [p \in Procs |-> "idle"]
  /\ call = [p \in Procs |-> NoCall]
  /\ loc = [p \in Procs |-> NoLoc]
  /\ ret = [p \in Procs |-> NoOutcome]
  /\ obs = [p \in Procs |-> NoObs]

\* one request at a time
Init == InitWith({"A"}, {MediaPath}, "off")

\* two concurrent requests
InitConc == InitWith(Procs, {MediaPath}, "off")

\* one request at a time, the downloaded medium is the long video
InitVideo == InitWith({"A"}, {LongVideoPath}, "off")

\* the webhook is served, nothing is downloaded yet: one request at a time,
\* and two concurrent requests
InitHook == InitWith({"A"}, {}, "idle")
InitHookConc == InitWith(Procs, {}, "idle")

\* the detectors are driven by the webhook
Hooked == \E p \in Procs : hook[p].stage # "off"

\* the inputs and the outcomes of the environment are drawn from the wide sets
\* when one request runs at a time, and from the narrow ones when two run
\* concurrently or when the medium is the long video
Drawn(wide, narrow) ==
  IF clients = Procs \/ LongVideoPath \in files \/ Hooked THEN narrow ELSE wide

\* what int(cap.get(cv2.CAP_PROP_FRAME_COUNT)) may be
FrameCounts ==
  IF LongVideoPath \in files THEN 0..MaxVideoFrames
  ELSE Drawn(0..MaxFrames, 0..MaxConcFrames)

CanStart(p) ==
  /\ p \in clients
  /\ hook[p].stage = "off"
  /\ running = None
  /\ pc[p] \in {"idle", "done"}

\* the handler returns to its caller and releases the event loop
Finish(p, outcome) ==
  /\ ret' = [ret EXCEPT ![p] = outcome]
  /\ pc' = [pc EXCEPT ![p] = "done"]
  /\ loc' = [loc EXCEPT ![p] = NoLoc]
  /\ running' = None

\* ------------------------------------------------ FakeNewsDetector actions
\* analyze_text from its entry to `await loop.run_in_executor(...)` or to the
\* return of the validation branch or of the except clause
analyze_text_entry(p, text) ==
  /\ fnd.initialized \/ Len(txtLoadLog) < MaxLoads
  /\ \E ok \in IF fnd.initialized THEN {TRUE} ELSE BOOLEAN :
       LET ld == lazy_load_model(fnd, ok)
       IN  /\ call' = [call EXCEPT ![p] = [fn |-> "analyze_text", text |-> text]]
           /\ obs' = [obs EXCEPT ![p] =
                        [NoObs EXCEPT !.loaded = ld.attempted, !.raised = ld.raised]]
           /\ fnd' = ld.self
           /\ txtLoadLog' = IF ld.attempted THEN Append(txtLoadLog, ok) ELSE txtLoadLog
           /\ IF ld.raised # None
              THEN Finish(p, analyze_text_except(ld.raised))
              ELSE IF TooShort(text)
              THEN Finish(p, Returned(insufficient_text_record))
              ELSE /\ pc' = [pc EXCEPT ![p] = "txt_wait"]
                   /\ loc' = [loc EXCEPT ![p] = [caller |-> "text", text |-> Truncate(text)]]
                   /\ ret' = [ret EXCEPT ![p] = NoOutcome]
                   /\ running' = None
  /\ UNCHANGED <<clients, dfd, imgLoadLog, files>>

\* analyze_text called directly with any text
TextCall(p) ==
  /\ CanStart(p)
  /\ \E text \in Drawn(TextInputs, ConcTextInputs) : analyze_text_entry(p, text)
  /\ UNCHANGED hook

\* _analyze_with_model in an executor thread: the classifier is invoked
TextExec(p) ==
  /\ pc[p] = "txt_wait"
  /\ \E out \in Drawn(TextClassifierOutcomes, ConcTextClassifierOutcomes) :
       LET future == IF fnd.pipeline = None THEN Raised("TypeError")
                     ELSE analyze_with_model(out)
       IN  /\ loc' = [loc EXCEPT ![p] =
                        [caller |-> "text", text |-> loc[p].text, future |-> future]]
           /\ obs' = [obs EXCEPT ![p].invoked = TRUE,
                                 ![p].raised = IF future.kind = "raise" THEN future.val
                                               ELSE None,
                                 ![p].env = [kind |-> "text", out |-> out]]
  /\ pc' = [pc EXCEPT ![p] = "txt_ready"]
  /\ UNCHANGED <<clients, hook, fnd, dfd, txtLoadLog, imgLoadLog, files, running, call, ret>>

\* analyze_text with a plausible slip: the result of the executor is kept in
\* one place for all calls, and a call that resumes reads what the latest
\* classification left there
TextResume_shared_future(p) ==
  /\ pc[p] = "txt_ready"
  /\ running = None
  /\ LET future == IF \E q \in Procs \ {p} : pc[q] = "txt_ready"
                    THEN loc[CHOOSE q \in Procs \ {p} : pc[q] = "txt_ready"].future
                    ELSE loc[p].future
     IN  Finish(p, IF future.kind = "raise"
                   THEN analyze_text_except(future.val)
                   ELSE future)
  /\ UNCHANGED <<clients, hook, fnd, dfd, txtLoadLog, imgLoadLog, files, call, obs>>

\* analyze_text resumes with the future's result: `return result`, or the
\* except clause
TextResume(p) ==
  /\ pc[p] = "txt_ready"
  /\ running = None
  /\ Finish(p, IF loc[p].future.kind = "raise"
               THEN analyze_text_except(loc[p].future.val)
               ELSE loc[p].future)
  /\ UNCHANGED <<clients, hook, fnd, dfd, txtLoadLog, imgLoadLog, files, call, obs>>

\* ------------------------------------------------ DeepfakeDetector actions
\* analyze_media from its entry to the dispatch: the MIME hint is mapped
\* outside the try block
analyze_media_entry(p, file_path, mime_type) ==
  /\   LET media_type == get_media_type_from_mime(mime_type)
           enter(at) ==
             /\ pc' = [pc EXCEPT ![p] = at]
             /\ loc' = [loc EXCEPT ![p] = [caller |-> "media", path |-> file_path,
                                           image_path |-> file_path]]
             /\ ret' = [ret EXCEPT ![p] = NoOutcome]
             /\ running' = p
       IN  /\ call' = [call EXCEPT ![p] =
                         [fn |-> "analyze_media", file_path |-> file_path,
                          mime_type |-> mime_type]]
           /\ obs' = [obs EXCEPT ![p] = NoObs]
           /\ IF media_type.kind = "raise" THEN Finish(p, media_type)
              ELSE IF media_type.val = "image" THEN enter("img_call")
              ELSE IF media_type.val = "video" THEN enter("vid_open")
              ELSE IF media_type.val = "audio" THEN enter("aud_call")
              ELSE Finish(p, Returned(unsupported_record(media_type.val)))
  /\ UNCHANGED <<clients, fnd, dfd, txtLoadLog, imgLoadLog, files>>

\* analyze_media called directly with any path and any MIME hint
MediaCall(p) ==
  /\ CanStart(p)
  /\ \E file_path \in Drawn(Paths, files \cap {MediaPath, LongVideoPath}),
        mime_type \in Drawn(MimeHints, ConcMimeHints) :
       analyze_media_entry(p, file_path, mime_type)
  /\ UNCHANGED hook

\* analyze_image from its entry to `await loop.run_in_executor(...)`, or to
\* its result when no executor is used (the basic analysis never suspends)
ImageCall(p) ==
  /\ pc[p] = "img_call"
  /\ running = p
  /\ \E ok \in IF dfd.initialized THEN {TRUE} ELSE BOOLEAN :
       LET ld == lazy_load_image_model(dfd, ok)
           self == ld.self
           got(o, route, env) ==
             /\ pc' = [pc EXCEPT ![p] = "img_ret"]
             /\ loc' = [loc EXCEPT ![p] =
                          [result |-> analyze_image_result(o)] @@ loc[p]]
             /\ obs' = [obs EXCEPT ![p].routes = @ \cup route,
                                   ![p].loaded = @ \/ ld.attempted,
                                   ![p].env = env]
             /\ running' = p
       IN  /\ dfd' = self
           /\ imgLoadLog' = IF ld.attempted THEN Append(imgLoadLog, ok) ELSE imgLoadLog
           /\ IF loc[p].image_path \notin files
              THEN got(Raised("FileNotFoundError"), {}, [kind |-> "missing"])
              ELSE \E opens \in Drawn(BOOLEAN, {TRUE}) :
                     IF ~opens
                     THEN got(Raised("UnidentifiedImageError"), {}, NoEnv)
                     ELSE IF self.image_pipeline # None
                     THEN /\ pc' = [pc EXCEPT ![p] = "img_wait"]
                          /\ obs' = [obs EXCEPT ![p].routes = @ \cup {"model"},
                                                ![p].loaded = @ \/ ld.attempted]
                          /\ running' = None
                          /\ loc' = loc
                     ELSE \E b \in Drawn(BasicInputs, ConcBasicInputs) :
                            got(analyze_image_basic(b.img, b.q, b.e), {"heuristic"},
                                [kind |-> "basic", img |-> b.img, q |-> b.q, e |-> b.e])
  /\ UNCHANGED <<clients, hook, fnd, txtLoadLog, files, call, ret>>

\* _analyze_image_with_model in an executor thread
ImageExec(p) ==
  /\ pc[p] = "img_wait"
  /\ \E out \in Drawn(ImageClassifierOutcomes, ConcImageClassifierOutcomes) :
       loc' = [loc EXCEPT ![p] =
                 [future |-> IF dfd.image_pipeline = None THEN Raised("TypeError")
                             ELSE analyze_image_with_model(out)] @@ loc[p]]
  /\ pc' = [pc EXCEPT ![p] = "img_ready"]
  /\ obs' = [obs EXCEPT ![p].invoked = TRUE]
  /\ UNCHANGED <<clients, hook, fnd, dfd, txtLoadLog, imgLoadLog, files, running, call, ret>>

\* analyze_image resumes with the future's result
ImageResume(p) ==
  /\ pc[p] = "img_ready"
  /\ running = None
  /\ running' = p
  /\ pc' = [pc EXCEPT ![p] = "img_ret"]
  /\ loc' = [loc EXCEPT ![p] =
               [k \in (DOMAIN loc[p] \ {"future"}) \cup {"result"} |->
                  IF k = "result" THEN analyze_image_result(loc[p].future)
                  ELSE loc[p][k]]]
  /\ UNCHANGED <<clients, hook, fnd, dfd, txtLoadLog, imgLoadLog, files, call, ret, obs>>

\* analyze_image returns to analyze_media, which returns it
ImageReturn(p) ==
  /\ pc[p] = "img_ret"
  /\ running = p
  /\ loc[p].caller = "media"
  /\ Finish(p, Returned(loc[p].result))
  /\ UNCHANGED <<clients, hook, fnd, dfd, txtLoadLog, imgLoadLog, files, call, obs>>

\* analyze_audio, which never suspends
AudioCall(p) ==
  /\ pc[p] = "aud_call"
  /\ running = p
  /\ \E out \in IF loc[p].path \in files
                 THEN Drawn(AudioOutcomes, {[decoded |-> TRUE]})
                 ELSE {[raises |-> "DecodeError"]} :
       /\ Finish(p, Returned(analyze_audio(out)))
       /\ obs' = [obs EXCEPT ![p].env = [kind |-> "audio", out |-> out]]
  /\ UNCHANGED <<clients, hook, fnd, dfd, txtLoadLog, imgLoadLog, files, call>>

\* what cap.get(cv2.CAP_PROP_FPS) may be
FpsChoices == {0, 25}

\* analyze_video from its entry to the frame loop
VideoOpen(p) ==
  /\ pc[p] = "vid_open"
  /\ running = p
  /\ \E opened \in IF loc[p].path \in files THEN BOOLEAN ELSE {FALSE},
        total_frames \in FrameCounts,
        fps \in Drawn(FpsChoices, {25}) :
       IF ~opened
       THEN /\ Finish(p, Returned(analyze_video_except("ValueError")))
            /\ obs' = obs
       ELSE /\ obs' = [obs EXCEPT ![p].opened = TRUE]
            /\ loc' = [loc EXCEPT ![p] =
                         [caller |-> "video", path |-> loc[p].path,
                          image_path |-> loc[p].path,
                          total_frames |-> total_frames, fps |-> fps,
                          frame_indices |-> frame_indices(total_frames),
                          i |-> 1, fake_count |-> 0, confidences |-> <<>>]]
            /\ pc' = [pc EXCEPT ![p] = "vid_loop"]
            /\ UNCHANGED <<ret, running>>
  /\ UNCHANGED <<clients, hook, fnd, dfd, txtLoadLog, imgLoadLog, files, call>>

\* one turn of `for idx in frame_indices`, up to the call of analyze_image;
\* after the loop, cap.release() and the verdict
VideoFrame(p) ==
  /\ pc[p] = "vid_loop"
  /\ running = p
  /\ LET f == loc[p]
     IN  IF f.i > Len(f.frame_indices)
         THEN /\ Finish(p, Returned(video_record(f.total_frames, f.fps, f.frame_indices,
                                                 f.fake_count, f.confidences)))
              /\ obs' = [obs EXCEPT ![p].released = TRUE]
              /\ files' = files
         ELSE \E decoded \in BOOLEAN :
                IF decoded
                THEN /\ files' = files \cup {temp_frame(f.frame_indices[f.i])}
                     /\ loc' = [loc EXCEPT ![p].image_path = temp_frame(f.frame_indices[f.i])]
                     /\ pc' = [pc EXCEPT ![p] = "img_call"]
                     /\ UNCHANGED <<ret, running, obs>>
                ELSE /\ loc' = [loc EXCEPT ![p].i = f.i + 1]
                     /\ obs' = [obs EXCEPT ![p].frames =
                                  Append(@, [idx |-> f.frame_indices[f.i], decoded |-> FALSE,
                                             failed |-> FALSE,
                                             is_fake |-> FALSE, confidence |-> 0])]
                     /\ UNCHANGED <<files, pc, ret, running>>
  /\ UNCHANGED <<clients, hook, fnd, dfd, txtLoadLog, imgLoadLog, call>>

\* the frame loop with a plausible slip: a frame whose analysis failed is
\* skipped like an undecoded frame
VideoFrameDone_skips_failed(p) ==
  /\ pc[p] = "img_ret"
  /\ running = p
  /\ loc[p].caller = "video"
  /\ LET f == loc[p]
         result == f.result
         failed == result.details[1].kind = "erreur"
     IN  /\ files' = files \ {f.image_path}
         /\ obs' = [obs EXCEPT ![p].env = NoEnv,
                               ![p].frames =
                                 Append(@, [idx |-> f.frame_indices[f.i], decoded |-> TRUE,
                                            failed |-> failed,
                                            is_fake |-> result.is_fake,
                                            confidence |-> result.confidence])]
         /\ loc' = [loc EXCEPT ![p] =
              [k \in DOMAIN f \ {"result"} |->
                 IF k = "i" THEN f.i + 1
                 ELSE IF k = "fake_count"
                 THEN (IF result.is_fake THEN f.fake_count + 1 ELSE f.fake_count)
                 ELSE IF k = "confidences"
                 THEN (IF failed THEN f.confidences
                       ELSE Append(f.confidences, result.confidence))
                 ELSE f[k]]]
         /\ pc' = [pc EXCEPT ![p] = "vid_loop"]
  /\ UNCHANGED <<clients, hook, fnd, dfd, txtLoadLog, imgLoadLog, call, ret, running>>

\* the frame loop with a plausible slip: the temporary frame is not removed
VideoFrameDone_keeps_frame(p) ==
  /\ pc[p] = "img_ret"
  /\ running = p
  /\ loc[p].caller = "video"
  /\ LET f == loc[p]
         result == f.result
     IN  /\ obs' = [obs EXCEPT ![p].env = NoEnv,
                               ![p].frames =
                                 Append(@, [idx |-> f.frame_indices[f.i], decoded |-> TRUE,
                                            failed |-> result.details[1].kind = "erreur",
                                            is_fake |-> result.is_fake,
                                            confidence |-> result.confidence])]
         /\ loc' = [loc EXCEPT ![p] =
              [k \in DOMAIN f \ {"result"} |->
                 IF k = "i" THEN f.i + 1
                 ELSE IF k = "fake_count"
                 THEN (IF result.is_fake THEN f.fake_count + 1 ELSE f.fake_count)
                 ELSE IF k = "confidences" THEN Append(f.confidences, result.confidence)
                 ELSE f[k]]]
         /\ pc' = [pc EXCEPT ![p] = "vid_loop"]
  /\ UNCHANGED <<clients, hook, fnd, dfd, txtLoadLog, imgLoadLog, files, call, ret, running>>

\* analyze_image returns to the frame loop: the counts, then
\* os.remove(temp_frame), which raises when the file is gone
VideoFrameDone(p) ==
  /\ pc[p] = "img_ret"
  /\ running = p
  /\ loc[p].caller = "video"
  /\ LET f == loc[p]
         result == f.result
     IN  IF f.image_path \notin files
         THEN /\ Finish(p, Returned(analyze_video_except("FileNotFoundError")))
              /\ UNCHANGED <<files, obs>>
         ELSE /\ files' = files \ {f.image_path}
              /\ obs' = [obs EXCEPT ![p].env = NoEnv,
                                    ![p].frames =
                                      Append(@, [idx |-> f.frame_indices[f.i], decoded |-> TRUE,
                                                 failed |-> result.details[1].kind = "erreur",
                                                 is_fake |-> result.is_fake,
                                                 confidence |-> result.confidence])]
              /\ loc' = [loc EXCEPT ![p] =
                   [k \in DOMAIN f \ {"result"} |->
                      IF k = "i" THEN f.i + 1
                      ELSE IF k = "fake_count"
                      THEN (IF result.is_fake THEN f.fake_count + 1 ELSE f.fake_count)
                      ELSE IF k = "confidences" THEN Append(f.confidences, result.confidence)
                      ELSE f[k]]]
              /\ pc' = [pc EXCEPT ![p] = "vid_loop"]
              /\ UNCHANGED <<ret, running>>
  /\ UNCHANGED <<clients, hook, fnd, dfd, txtLoadLog, imgLoadLog, call>>

\* ===================================================== webhook and messages
\* Config.VERIFY_TOKEN
VERIFY_TOKEN == "verify_me_fakenews_2025"

\* the query parameters of a GET /webhook; None is an absent parameter
ModeParams == {Str("subscribe"), Str("unsubscribe"), PyNone}
TokenParams == {Str(VERIFY_TOKEN), Str("guess"), PyNone}
ChallengeParams == {Str("1158201444"), PyNone}

\* verify_get: the Response, or the exception that token[:10] raises on None
verify_get(mode, token, challenge) ==
  IF token.type # "str"
  THEN Raised("TypeError")
  ELSE IF mode.type = "str" /\ mode.v = "subscribe" /\ token.v = VERIFY_TOKEN
  THEN Returned([status_code |-> 200, content |-> challenge])
  ELSE Returned([status_code |-> 403, content |-> Str("Forbidden")])

\* the words of the special commands, and some spellings a user may send
W_start == <<"s","t","a","r","t">>
W_hello == <<"h","e","l","l","o">>
W_bonjour == <<"b","o","n","j","o","u","r">>
W_salut == <<"s","a","l","u","t">>
W_hi == <<"h","i">>
W_help == <<"h","e","l","p">>
W_aide == <<"a","i","d","e">>
W_question == <<"?">>
W_info == <<"i","n","f","o">>
W_about == <<"a","b","o","u","t">>
W_a_propos == <<"à"," ","p","r","o","p","o","s">>
W_Hello == <<"H","e","l","l","o">>
W_AIDE == <<"A","I","D","E">>

\* _handle_text_message, the special commands: the reply to the stripped
\* text, or None when the text is to be analysed
command_reply(word) ==
  LET text_lower == lower(word)
  IN  IF text_lower \in {W_start, W_hello, W_bonjour, W_salut, W_hi} THEN "WELCOME_MESSAGE"
      ELSE IF text_lower \in {W_help, W_aide, W_question} THEN "HELP_MESSAGE"
      ELSE IF text_lower \in {W_info, W_about, W_a_propos} THEN "INFO_MESSAGE"
      ELSE None

\* message_data["text"]["body"]: a text as above, with its stripped content
\* `word` when this is a single short word (<<>> for any other content)
TextBodies ==
  { [lead |-> 3, core |-> 0, trail |-> 0, word |-> <<>>],
    [lead |-> 1, core |-> 5, trail |-> 1, word |-> W_Hello],
    [lead |-> 0, core |-> 4, trail |-> 0, word |-> W_AIDE],
    [lead |-> 0, core |-> 4, trail |-> 0, word |-> W_info],
    [lead |-> 0, core |-> MinTextLen - 1, trail |-> 0, word |-> <<>>],
    [lead |-> 3, core |-> MinTextLen, trail |-> 3, word |-> <<>>] }

ConcTextBodies == { [lead |-> 3, core |-> MinTextLen, trail |-> 3, word |-> <<>>] }

\* text_body.strip()
strip(body) == [lead |-> 0, core |-> body.core, trail |-> 0]

\* the messages of a payload: text, a text message whose "text" is null, media
\* with or without an id, a type the bot does not handle, and an item that is
\* no JSON object
MediaTypes == {"image", "video", "audio", "document"}
\* message_data[message_type]["id"] of the media the sender uploaded
MediaId == Str(1)

Messages ==
  { [type |-> "text", body |-> b] : b \in TextBodies }
  \cup { [type |-> t, id |-> MediaId] : t \in MediaTypes }
  \cup { [type |-> "text", text |-> PyNone], [type |-> "image", id |-> PyNone],
         [type |-> "sticker"], [type |-> "not a dict"] }

ConcMessages ==
  { [type |-> "text", body |-> b] : b \in ConcTextBodies }
  \cup { [type |-> "image", id |-> MediaId] }

\* MediaHandler._download_file: os.path.join(temp_dir, sanitize_filename(
\* f"{media_id}{extension}"))
download_path(media_id) == [kind |-> "media", id |-> media_id.v]

\* what download_media may return: None, or the path and the content-type
DownloadOutcomes ==
  {[ok |-> FALSE]} \cup { [ok |-> TRUE, mime_type |-> m] : m \in ConcMimeHints }

\* the cleanup with a plausible slip: the file is left in place
cleanup_media_keeps(fs, file_path) == fs

\* MediaHandler.cleanup_media
cleanup_media(fs, file_path) == IF file_path \in fs THEN fs \ {file_path} ELSE fs

\* FakeNewsDetector.get_analysis_summary: `summary +=` in the else branch
\* reads a local that was never assigned
get_analysis_summary(analysis) ==
  IF analysis.is_fake
  THEN Returned([kind |-> "resume", verdict |-> "ALERTE FAKE NEWS POSSIBLE",
                 confidence |-> analysis.confidence, details |-> analysis.details])
  ELSE Raised("UnboundLocalError")

\* utils.format_analysis_result
format_analysis_result(content_type, is_fake, confidence, details) ==
  [kind |-> "resultat", content_type |-> content_type,
   verdict |-> IF is_fake THEN "CONTENU SUSPECT" ELSE "CONTENU PROBABLEMENT AUTHENTIQUE",
   confidence |-> confidence, details |-> details]

\* a reply that is a fixed notice
Notice(text) == [kind |-> "notice", text |-> text]

\* the loop with a plausible slip: a message that failed ends the processing
\* of the payload
next_message_stops(h, failed, downloaded, left) ==
  IF failed
  THEN [h EXCEPT !.log = Append(@, [item |-> "message", k |-> h.k, failed |-> failed,
                                    downloaded |-> downloaded, left |-> left]),
                 !.stage = "responded",
                 !.response = Returned([status_code |-> 200, status |-> "received"])]
  ELSE [h EXCEPT !.log = Append(@, [item |-> "message", k |-> h.k, failed |-> failed,
                                    downloaded |-> downloaded, left |-> left]),
                 !.k = @ + 1, !.stage = "dispatch"]

\* process_message returns to the loop of handle_post: `failed` is whether an
\* exception was caught or the download failed, `left` whether the downloaded
\* file is on disk at this moment
next_message(h, failed, downloaded, left) ==
  [h EXCEPT !.log = Append(@, [item |-> "message", k |-> h.k, failed |-> failed,
                               downloaded |-> downloaded, left |-> left]),
            !.k = @ + 1, !.stage = "dispatch"]

\* the inputs of the webhook: all of them with one client, few with two
FromClient(wide, narrow) == IF clients = Procs THEN narrow ELSE wide

\* a client sends a request when its previous one is answered; with two
\* clients each sends one request
HookIdle(p) ==
  /\ p \in clients
  /\ hook[p].stage \in IF clients = Procs THEN {"idle"} ELSE {"idle", "responded"}
  /\ running = None

HookAt(p, stage) ==
  /\ p \in clients
  /\ hook[p].stage = stage
  /\ running = None

\* GET /webhook: webhook_verify and verify_get
WebhookVerify(p) ==
  /\ HookIdle(p)
  /\ \E mode \in FromClient(ModeParams, {Str("subscribe")}),
        token \in FromClient(TokenParams, {Str(VERIFY_TOKEN)}),
        challenge \in FromClient(ChallengeParams, {Str("1158201444")}) :
       hook' = [hook EXCEPT ![p] =
                  [NoHook("responded") EXCEPT
                     !.request = [method |-> "GET", mode |-> mode, token |-> token,
                                  challenge |-> challenge],
                     !.response = verify_get(mode, token, challenge)]]
  /\ UNCHANGED <<clients, fnd, dfd, txtLoadLog, imgLoadLog, files, running, pc, call,
                 loc, ret, obs>>

\* POST /webhook: webhook_receive and handle_post up to the first message.
\* The body is no JSON, a JSON list, or an object with `n` messages and `st`
\* statuses in one entry (none at all: no entry)
WebhookReceive(p) ==
  /\ HookIdle(p)
  /\ \E json \in FromClient({"invalid", "list", "dict"}, {"dict"}) :
       \E n \in IF json = "dict" THEN FromClient(0..MaxMessages, {1}) ELSE {0},
          st \in IF json = "dict" THEN FromClient(0..MaxStatuses, {0}) ELSE {0} :
         LET h == [NoHook("dispatch") EXCEPT
                     !.request = [method |-> "POST", json |-> json, n |-> n, statuses |-> st],
                     !.k = 1]
             answered(status) ==
               [h EXCEPT !.stage = "responded",
                         !.response = Returned([status_code |-> 200, status |-> status])]
         IN  hook' = [hook EXCEPT ![p] =
                        IF json = "invalid" THEN answered("error")
                        ELSE IF json = "list" \/ (n = 0 /\ st = 0) THEN answered("received")
                        ELSE h]
  /\ UNCHANGED <<clients, fnd, dfd, txtLoadLog, imgLoadLog, files, running, pc, call,
                 loc, ret, obs>>

\* handle_post, one turn of `for message in messages`: process_message,
\* process_incoming_message and the handler up to its first await that is
\* followed by more work; after the messages, the statuses and the response.
\* The frame of the analysis of the previous message is gone
Dispatch(p) ==
  /\ HookAt(p, "dispatch")
  /\ LET h == hook[p]
     IN  IF h.k > h.request.n
         THEN hook' = [hook EXCEPT ![p] =
                [h EXCEPT !.log = @ \o [i \in 1..h.request.statuses |->
                                          [item |-> "status", k |-> i, failed |-> FALSE,
                                           downloaded |-> FALSE, left |-> FALSE]],
                          !.stage = "responded",
                          !.response = Returned([status_code |-> 200, status |-> "received"])]]
         ELSE \E m \in FromClient(Messages, ConcMessages) :
                LET g == [h EXCEPT !.msg = m, !.media = [path |-> None]]
                    said(text) == [g EXCEPT !.replies = <<Notice(text)>>]
                IN  hook' = [hook EXCEPT ![p] =
                      IF m.type = "not a dict"
                      THEN next_message([g EXCEPT !.replies = <<>>], TRUE, FALSE, FALSE)
                      ELSE IF m.type = "text" /\ "body" \notin DOMAIN m
                      THEN next_message(said("Desole, une erreur s'est produite"),
                                        TRUE, FALSE, FALSE)
                      ELSE IF m.type = "text"
                      THEN IF strip(m.body).core = 0
                           THEN next_message(said("Message vide"), FALSE, FALSE, FALSE)
                           ELSE IF command_reply(m.body.word) # None
                           THEN next_message(said(command_reply(m.body.word)),
                                             FALSE, FALSE, FALSE)
                           ELSE [said("Analyse en cours") EXCEPT !.stage = "text_analyze"]
                      ELSE IF m.type \in MediaTypes
                      THEN IF m.id.type # "str"
                           THEN next_message(said("Impossible de recuperer le media"),
                                             FALSE, FALSE, FALSE)
                           ELSE [said("Telechargement du media") EXCEPT !.stage = "download"]
                      ELSE next_message(said("Type de message non supporte"),
                                        FALSE, FALSE, FALSE)]
  /\ pc' = [pc EXCEPT ![p] = "idle"]
  /\ call' = [call EXCEPT ![p] = NoCall]
  /\ loc' = [loc EXCEPT ![p] = NoLoc]
  /\ ret' = [ret EXCEPT ![p] = NoOutcome]
  /\ obs' = [obs EXCEPT ![p] = NoObs]
  /\ UNCHANGED <<clients, fnd, dfd, txtLoadLog, imgLoadLog, files, running>>

\* _handle_text_message: `await self.fake_news_detector.analyze_text(text_body)`
TextAnalyze(p) ==
  /\ HookAt(p, "text_analyze")
  /\ analyze_text_entry(p, strip(hook[p].msg.body))
  /\ hook' = [hook EXCEPT ![p].stage = "text_wait"]

\* _handle_text_message after the analysis: the summary is sent, or the
\* error notice of the except clause
TextReply(p) ==
  /\ HookAt(p, "text_wait")
  /\ pc[p] = "done"
  /\ LET summary == get_analysis_summary(ret[p].val)
         reply == IF summary.kind = "raise"
                  THEN Notice("Erreur lors de l'analyse du texte")
                  ELSE summary.val
     IN  hook' = [hook EXCEPT ![p] =
                    next_message([hook[p] EXCEPT !.replies = Append(@, reply)],
                                 summary.kind = "raise", FALSE, FALSE)]
  /\ UNCHANGED <<clients, fnd, dfd, txtLoadLog, imgLoadLog, files, running, pc, call,
                 loc, ret, obs>>

\* _handle_media_message: `await self.media_handler.download_media(media_id)`
\* and the notice that follows
Download(p) ==
  /\ HookAt(p, "download")
  /\ \E got \in DownloadOutcomes :
       LET h == hook[p]
           file_path == download_path(h.msg.id)
       IN  IF ~got.ok
           THEN /\ hook' = [hook EXCEPT ![p] =
                      next_message([h EXCEPT !.replies =
                                      Append(@, Notice("Echec du telechargement du media"))],
                                   TRUE, FALSE, FALSE)]
                /\ files' = files
           ELSE /\ files' = files \cup {file_path}
                /\ hook' = [hook EXCEPT ![p] =
                      [h EXCEPT !.media = [path |-> file_path, mime_type |-> got.mime_type],
                                !.replies = Append(@, Notice("Analyse en cours")),
                                !.stage = "media_analyze"]]
  /\ UNCHANGED <<clients, fnd, dfd, txtLoadLog, imgLoadLog, running, pc, call, loc, ret, obs>>

\* _handle_media_message: `await self.deepfake_detector.analyze_media(...)`
MediaAnalyze(p) ==
  /\ HookAt(p, "media_analyze")
  /\ analyze_media_entry(p, hook[p].media.path, hook[p].media.mime_type)
  /\ hook' = [hook EXCEPT ![p].stage = "media_wait"]

\* _handle_media_message after the analysis: the result is formatted and
\* sent; an exception takes the except clause, which sends the error notice
\* and returns
MediaReply(p) ==
  /\ HookAt(p, "media_wait")
  /\ pc[p] = "done"
  /\ LET h == hook[p]
         analysis == ret[p]
     IN  hook' = [hook EXCEPT ![p] =
           IF analysis.kind = "raise"
           THEN next_message([h EXCEPT !.replies =
                                Append(@, Notice("Erreur lors de l'analyse du media"))],
                             TRUE, TRUE, h.media.path \in files)
           ELSE [h EXCEPT !.replies =
                   Append(@, format_analysis_result(
                               get_media_type_from_mime(h.media.mime_type).val,
                               analysis.val.is_fake, analysis.val.confidence,
                               analysis.val.details)),
                          !.stage = "media_cleanup"]]
  /\ UNCHANGED <<clients, fnd, dfd, txtLoadLog, imgLoadLog, files, running, pc, call,
                 loc, ret, obs>>

\* _handle_media_message after the result is sent: cleanup_media, return
MediaCleanup(p) ==
  /\ HookAt(p, "media_cleanup")
  /\ files' = cleanup_media(files, hook[p].media.path)
  /\ hook' = [hook EXCEPT ![p] =
                next_message(hook[p], FALSE, TRUE, hook[p].media.path \in files')]
  /\ UNCHANGED <<clients, fnd, dfd, txtLoadLog, imgLoadLog, running, pc, call, loc, ret, obs>>


\* ------------------------------------------------------------ specification
Next ==
  \E p \in Procs :
    \/ TextCall(p)
    \/ TextExec(p)
    \/ TextResume(p)
    \/ MediaCall(p)
    \/ ImageCall(p)
    \/ ImageExec(p)
    \/ ImageResume(p)
    \/ ImageReturn(p)
    \/ AudioCall(p)
    \/ VideoOpen(p)
    \/ VideoFrame(p)
    \/ VideoFrameDone(p)

Spec == Init /\ [][Next]_vars

SpecConc == InitConc /\ [][Next]_vars

SpecVideo == InitVideo /\ [][Next]_vars

\* the detectors behind the webhook
NextHook ==
  \E p \in Procs :
    \/ WebhookVerify(p)
    \/ WebhookReceive(p)
    \/ Dispatch(p)
    \/ TextAnalyze(p)
    \/ TextExec(p)
    \/ TextResume(p)
    \/ TextReply(p)
    \/ Download(p)
    \/ MediaAnalyze(p)
    \/ ImageCall(p)
    \/ ImageExec(p)
    \/ ImageResume(p)
    \/ ImageReturn(p)
    \/ AudioCall(p)
    \/ VideoOpen(p)
    \/ VideoFrame(p)
    \/ VideoFrameDone(p)
    \/ MediaReply(p)
    \/ MediaCleanup(p)

SpecHook == InitHook /\ [][NextHook]_vars

SpecHookConc == InitHookConc /\ [][NextHook]_vars

TypeOK ==
  /\ running \in Procs \cup {None}
  /\ \A p \in Procs : pc[p] \in {"idle", "done", "txt_wait", "txt_ready", "img_call",
                                 "img_wait", "img_ready", "img_ret", "aud_call",
                                 "vid_open", "vid_loop"}

\* ================================================================== claims
Done(p, fn) == pc[p] = "done" /\ call[p].fn = fn
Keys(p) == DOMAIN ret[p].val

\* the raw spellings of the labels, written out
RealSpellings == {L_REAL, L_Real, L_LABEL_0, L_0, L_RELIABLE}
FakeSpellings == {L_FAKE, L_fake, L_LABEL_1, L_label_1, L_1, L_unreliable}
SpelledUpper(l) ==
  CASE l = L_fake -> L_FAKE
    [] l = L_Real -> L_REAL
    [] l = L_label_1 -> L_LABEL_1
    [] l = L_unreliable -> L_UNRELIABLE
    [] l = L_neutral -> <<"N","E","U","T","R","A","L">>
    [] l = L_Fake -> L_FAKE
    [] l = L_Deepfake -> L_DEEPFAKE
    [] OTHER -> l

\* C1: a text whose stripped length is below 10 is answered with
\* label "insufficient_text", is_fake false, confidence 0.0, without the
\* classifier being invoked, whatever the state of the text detector.
C1_ShortTextIsInsufficient ==
  \A p \in Procs :
    (Done(p, "analyze_text") /\ TooShort(call[p].text)) =>
      /\ ret[p].kind = "record"
      /\ ret[p].val.label = L_insufficient_text
      /\ ret[p].val.is_fake = FALSE
      /\ ret[p].val.confidence = 0
      /\ ~obs[p].invoked

\* C2: analyze_text never raises; when the load of the classifier or the
\* classification call raised, it returns label "error", is_fake false,
\* confidence 0.0 and the error message in details.
C2_TextNeverRaises ==
  \A p \in Procs :
    Done(p, "analyze_text") =>
      /\ ret[p].kind = "record"
      /\ obs[p].raised # None =>
           /\ ret[p].val.label = L_error
           /\ ret[p].val.is_fake = FALSE
           /\ ret[p].val.confidence = 0
           /\ \E i \in DOMAIN ret[p].val.details :
                /\ "msg" \in DOMAIN ret[p].val.details[i]
                /\ ret[p].val.details[i].msg = obs[p].raised

\* C2 witness: a classification call raised and analyze_text returned the
\* error record
C2_Witness ==
  \E p \in Procs :
    /\ Done(p, "analyze_text")
    /\ obs[p].invoked
    /\ obs[p].raised = "InferenceError"
    /\ ret[p].kind = "record"
    /\ ret[p].val.label = L_error

\* C3: once a load of the text classifier has failed, no later analyze_text
\* call attempts the load again (a failed attempt is the last attempt).
C3_NoLoadAfterFailure ==
  \A i \in DOMAIN txtLoadLog : txtLoadLog[i] = FALSE => i = Len(txtLoadLog)

\* C4: the image classifier is loaded at most once; after a failed load every
\* analyze_image call that analyses takes the heuristic path and none the
\* model path, after a successful load every one takes the model path.
C4_ImageRoutingIsPermanent ==
  /\ Len(imgLoadLog) <= 1
  /\ \A p \in Procs :
       /\ imgLoadLog = <<>> => obs[p].routes = {}
       /\ imgLoadLog = <<FALSE>> =>
            /\ obs[p].routes \subseteq {"heuristic"}
            /\ pc[p] \notin {"img_wait", "img_ready"}
            /\ call[p].fn = "analyze_media" => ~obs[p].invoked
       /\ imgLoadLog = <<TRUE>> => obs[p].routes \subseteq {"model"}
       /\ (Done(p, "analyze_media") /\ ret[p].kind = "record" /\ "label" \in Keys(p)) =>
            obs[p].routes = IF imgLoadLog = <<TRUE>> THEN {"model"} ELSE {"heuristic"}

\* C4 witness: the load failed in an earlier call, and a later call was
\* analysed on the heuristic path without a new load
C4_Witness ==
  \E p \in Procs :
    /\ imgLoadLog = <<FALSE>>
    /\ Done(p, "analyze_media")
    /\ ~obs[p].loaded
    /\ obs[p].routes = {"heuristic"}
    /\ "label" \in Keys(p)

\* C5: concurrent analyses share no mutable state, so each returns the record
\* it returns when run alone: an analyze_video whose temporary frames were all
\* written never ends in the error record of a missing temporary frame.
C5_ConcurrentVideosAreIsolated ==
  \A p \in Procs :
    (Done(p, "analyze_media") /\ ret[p].kind = "record") =>
      ret[p].val # analyze_video_except("FileNotFoundError")

\* C6: under concurrent first use each classifier handle is loaded at most
\* once and is never seen initialised while the handle of a successful load is
\* missing.
C6_SingleInitialisation ==
  /\ Len(txtLoadLog) <= 1
  /\ Len(imgLoadLog) <= 1
  /\ fnd.initialized => fnd.pipeline # None
  /\ (dfd.initialized /\ imgLoadLog = <<TRUE>>) => dfd.image_pipeline # None

\* C7: analyze_media never raises, whatever the file path and the MIME hint.
C7_MediaNeverRaises ==
  \A p \in Procs : Done(p, "analyze_media") => ret[p].kind = "record"

C9_RealLabelIsNeverFake ==
  \A p \in Procs :
    (Done(p, "analyze_text") /\ "all_predictions" \in Keys(p)
       /\ ret[p].val.all_predictions[1].label \in RealSpellings) =>
      ret[p].val.is_fake = FALSE

\* C9 witness: a mixed-case real label with the highest raw score
C9_Witness ==
  \E p \in Procs :
    /\ Done(p, "analyze_text")
    /\ "all_predictions" \in Keys(p)
    /\ ret[p].val.all_predictions[1] = [label |-> L_Real, score |-> 100]
    /\ ret[p].val.is_fake = FALSE

\* C10: is_fake is true exactly when the upper-cased top label is FAKE,
\* LABEL_1, "1" or UNRELIABLE, and the returned label is the upper-cased raw
\* label.
C10_LabelNormalisation ==
  \A p \in Procs :
    (Done(p, "analyze_text") /\ "all_predictions" \in Keys(p)) =>
      /\ ret[p].val.is_fake = (ret[p].val.all_predictions[1].label \in FakeSpellings)
      /\ ret[p].val.label = SpelledUpper(ret[p].val.all_predictions[1].label)

\* C10 witness: a lower-case fake label and a label outside both sets
C10_Witness ==
  \E p \in Procs :
    /\ Done(p, "analyze_text")
    /\ "all_predictions" \in Keys(p)
    /\ ret[p].val.all_predictions[1].label = L_unreliable
    /\ ret[p].val.is_fake = TRUE
    /\ ret[p].val.label = L_UNRELIABLE

\* the raw spellings of the image labels that mean a manipulated image
ImageFakeSpellings == {L_FAKE, L_Fake, L_Deepfake, L_label_1, L_1, L_MANIPULATED}

\* an image analysis has just handed its record back to its caller
ImageAnalysed(p) == pc[p] = "img_ret"

\* C11: on the image model path is_fake is true exactly when the upper-cased
\* top label is FAKE, DEEPFAKE, LABEL_1, "1" or MANIPULATED; the details begin
\* with the upper-cased top label and its percentage, followed by the
\* second-ranked prediction exactly when there is one.
C11_ImageLabelMapping ==
  \A p \in Procs :
    (ImageAnalysed(p) /\ "all_predictions" \in DOMAIN loc[p].result) =>
      LET r == loc[p].result
          preds == r.all_predictions
      IN  /\ r.is_fake = (preds[1].label \in ImageFakeSpellings)
          /\ r.details[1] = [kind |-> "prediction", label |-> SpelledUpper(preds[1].label),
                             pct |-> preds[1].score]
          /\ Len(preds) > 1 =>
               r.details[2] = [kind |-> "alternative", label |-> preds[2].label,
                               pct |-> preds[2].score]
          /\ Len(preds) = 1 =>
               \A i \in DOMAIN r.details : r.details[i].kind # "alternative"

\* C11 witness: a mixed-case image label with a second-ranked prediction
C11_Witness ==
  \E p \in Procs :
    /\ ImageAnalysed(p)
    /\ "all_predictions" \in DOMAIN loc[p].result
    /\ Len(loc[p].result.all_predictions) = 2
    /\ loc[p].result.all_predictions[1].label = L_Deepfake
    /\ loc[p].result.is_fake = TRUE
    /\ loc[p].result.details[2].kind = "alternative"

\* the frame loop of analyze_video is running or has run
InVideo(p) == loc[p].caller = "video"

Abs(n) == IF n < 0 THEN -n ELSE n

\* C12: for total_frames >= 1 the sampler selects min(5, total_frames)
\* indices, pairwise distinct, within [0, total_frames-1], starting at 0,
\* ending at total_frames-1 when there are several, evenly spaced (two gaps
\* differ by at most the rounding); 0,2,5,8,11 for 12 frames and 0,1,2 for 3.
C12_EvenSampling ==
  \A p \in Procs :
    (InVideo(p) /\ loc[p].total_frames >= 1) =>
      LET n == loc[p].total_frames
          fi == loc[p].frame_indices
          k == Len(fi)
      IN  /\ k = (IF n < 5 THEN n ELSE 5)
          /\ \A i \in 1..k : fi[i] \in 0..(n - 1)
          /\ \A i, j \in 1..k : i < j => fi[i] < fi[j]
          /\ fi[1] = 0
          /\ k > 1 => fi[k] = n - 1
          /\ \A i, j \in 1..(k - 1) :
               Abs((fi[i + 1] - fi[i]) - (fi[j + 1] - fi[j])) <= 1
          /\ n = 12 => fi = <<0, 2, 5, 8, 11>>
          /\ n = 3 => fi = <<0, 1, 2>>

\* C12 witness: a video of 12 frames has been sampled
C12_Witness ==
  \E p \in Procs :
    /\ InVideo(p)
    /\ loc[p].total_frames = 12
    /\ Len(loc[p].frame_indices) = 5
    /\ loc[p].frame_indices[5] = 11

\* analyze_video opened the video and has returned
VideoDone(p) == Done(p, "analyze_media") /\ obs[p].opened

\* the sampled frames that were decoded, and those found suspect
DecodedFrames(p) == { i \in DOMAIN obs[p].frames : obs[p].frames[i].decoded }
SuspectFrameSet(p) == { i \in DecodedFrames(p) : obs[p].frames[i].is_fake }

\* C13: the video verdict is is_fake = true exactly when at least 2 of the
\* analysed frames were found fake, whatever the number of sampled frames.
C13_TwoSuspectFrames ==
  \A p \in Procs :
    VideoDone(p) =>
      /\ ret[p].kind = "record"
      /\ ret[p].val.is_fake = (Cardinality(SuspectFrameSet(p)) >= 2)

\* C13 witness: five analysed frames flagged true, false, true, false, false
C13_Witness ==
  \E p \in Procs :
    /\ VideoDone(p)
    /\ Len(obs[p].frames) = 5
    /\ DecodedFrames(p) = 1..5
    /\ SuspectFrameSet(p) = {1, 3}
    /\ ret[p].val.is_fake = TRUE

RECURSIVE SumConfidence(_, _)
SumConfidence(h, I) ==
  IF I = {} THEN 0
  ELSE LET i == CHOOSE x \in I : TRUE
       IN  h[i].confidence + SumConfidence(h, I \ {i})

\* C14: a frame that fails to decode counts neither as suspect nor in the
\* mean; the video confidence is the mean of the decoded frames' confidences;
\* with no decoded frame the result is the record is_fake false, confidence 0
\* with its details, and not an exception or an error record.
C14_UndecodedFramesAreSkipped ==
  \A p \in Procs :
    VideoDone(p) =>
      /\ ret[p].kind = "record"
      /\ ret[p].val.details[1].kind # "erreur"
      /\ ret[p].val.confidence * Cardinality(DecodedFrames(p))
           = SumConfidence(obs[p].frames, DecodedFrames(p))
      /\ ret[p].val.details[3] =
           [kind |-> "frames suspectes", n |-> Cardinality(SuspectFrameSet(p)),
            of |-> Len(obs[p].frames)]
      /\ DecodedFrames(p) = {} =>
           /\ ret[p].val.is_fake = FALSE
           /\ ret[p].val.confidence = 0
           /\ Len(ret[p].val.details) > 0

\* C14 witness: of five sampled frames only the second and the fourth were
\* decoded, one of them with a non-zero confidence
C14_Witness ==
  \E p \in Procs :
    /\ VideoDone(p)
    /\ Len(obs[p].frames) = 5
    /\ DecodedFrames(p) = {2, 4}
    /\ obs[p].frames[2].confidence = Conf(100)
    /\ obs[p].frames[4].confidence = Conf(50)
    /\ ret[p].val.confidence = Conf(75)

\* the temporary frame files on disk
LiveFrames == { x \in files : x.kind = "frame" }

\* C15: the sampled frames are processed one after the other in increasing
\* index order; a frame is analysed and its temporary file removed before a
\* frame of a larger index is decoded, so at most one decoded frame exists.
C15_OneFrameAtATime ==
  \A p \in Procs :
    InVideo(p) =>
      LET h == obs[p].frames
      IN  /\ \A j, k \in DOMAIN h : j < k => h[j].idx < h[k].idx
          /\ Cardinality(LiveFrames) <= 1
          /\ \A x \in LiveFrames :
               /\ pc[p] \in {"img_call", "img_wait", "img_ready", "img_ret"}
               /\ x = loc[p].image_path
               /\ x.id = loc[p].frame_indices[loc[p].i]
               /\ \A j \in DOMAIN h : h[j].idx < x.id
          /\ pc[p] \in {"vid_loop", "done"} => LiveFrames = {}

\* C15 witness: the third sampled frame is decoded after two analysed frames
C15_Witness ==
  \E p \in Procs :
    /\ InVideo(p)
    /\ pc[p] = "img_wait"
    /\ Len(obs[p].frames) = 2
    /\ DecodedFrames(p) = {1, 2}
    /\ LiveFrames = {temp_frame(loc[p].frame_indices[3])}

\* the basic analysis has just handed back the record of a loaded image
BasicAnalysed(p) ==
  /\ ImageAnalysed(p)
  /\ obs[p].env.kind = "basic"
  /\ obs[p].env.img # None

\* C16: the confidence of the heuristic image analysis is at most 0.6 for
\* every quality and edge ratio, the failure defaults included.
C16_HeuristicConfidenceCap ==
  \A p \in Procs :
    BasicAnalysed(p) =>
      /\ "label" \in DOMAIN loc[p].result
      /\ loc[p].result.confidence <= Conf(60)
      /\ loc[p].result.confidence >= 0

\* C16 witness: the lowest quality and the highest edge ratio
C16_Witness ==
  \E p \in Procs :
    /\ BasicAnalysed(p)
    /\ obs[p].env.q = [v |-> 0]
    /\ obs[p].env.e = [v |-> 100]
    /\ loc[p].result.confidence = Conf(50)

\* C17: with both measurements taken, suspicious_score is 0.2 when the
\* quality is < 70 plus 0.3 when the edge ratio is > 0.7 (strict), is_fake is
\* suspicious_score > 0.3 and confidence is min(suspicious_score, 0.6).
C17_SuspiciousScore ==
  \A p \in Procs :
    (BasicAnalysed(p) /\ "v" \in DOMAIN obs[p].env.q /\ "v" \in DOMAIN obs[p].env.e) =>
      LET score == (IF obs[p].env.q.v < 70 THEN 20 ELSE 0)
                   + (IF obs[p].env.e.v > 70 THEN 30 ELSE 0)
      IN  /\ loc[p].result.is_fake = (score > 30)
          /\ loc[p].result.confidence = Conf(IF score < 60 THEN score ELSE 60)

\* C17 witness: quality exactly 70 and edge ratio exactly 0.7 add nothing
C17_Witness ==
  \E p \in Procs :
    /\ BasicAnalysed(p)
    /\ obs[p].env.q = [v |-> 70]
    /\ obs[p].env.e = [v |-> 70]
    /\ loc[p].result.is_fake = FALSE
    /\ loc[p].result.confidence = 0

\* C18: a failing quality estimation is replaced by quality 75 and a failing
\* edge analysis by edge ratio 0.0, and the analysis still returns the record
\* computed from these; both failing gives is_fake false, confidence 0.
C18_HeuristicStepsDegrade ==
  \A p \in Procs :
    BasicAnalysed(p) =>
      LET r == loc[p].result
          qfails == "raises" \in DOMAIN obs[p].env.q
          efails == "raises" \in DOMAIN obs[p].env.e
      IN  /\ (qfails \/ efails) => "label" \in DOMAIN r
          /\ qfails =>
               /\ r.details[2] = [kind |-> "qualite", pct |-> 75]
               /\ r.is_fake = FALSE
               /\ r.confidence = (IF ~efails /\ obs[p].env.e.v > 70 THEN Conf(30) ELSE 0)
          /\ efails =>
               /\ \A i \in DOMAIN r.details : r.details[i].kind # "artefacts de bords"
               /\ r.is_fake = FALSE
               /\ r.confidence = (IF ~qfails /\ obs[p].env.q.v < 70 THEN Conf(20) ELSE 0)
          /\ (qfails /\ efails) => (r.is_fake = FALSE /\ r.confidence = 0)

\* C18 witness: both heuristic steps failed and the record was returned
C18_Witness ==
  \E p \in Procs :
    /\ BasicAnalysed(p)
    /\ "raises" \in DOMAIN obs[p].env.q
    /\ "raises" \in DOMAIN obs[p].env.e
    /\ loc[p].result.label = L_likely_real
    /\ loc[p].result.confidence = 0

\* analyze_image was called on a path where there is no file
MissingImage(p) == ImageAnalysed(p) /\ loc[p].image_path \notin files

\* C19: on a missing image path analyze_image returns a record with is_fake
\* false, confidence 0.0, no label and the error in details, with or without
\* the classifier, and runs neither the classifier nor the heuristic analysis.
C19_MissingImage ==
  \A p \in Procs :
    MissingImage(p) =>
      LET r == loc[p].result
      IN  /\ r.is_fake = FALSE
          /\ r.confidence = 0
          /\ "label" \notin DOMAIN r
          /\ \E i \in DOMAIN r.details :
               /\ "msg" \in DOMAIN r.details[i]
               /\ r.details[i].msg = "FileNotFoundError"
          /\ obs[p].routes = {}
          /\ ~obs[p].invoked
          /\ obs[p].env.kind = "missing"

\* C19 witness: the path is missing while the classifier is available
C19_Witness ==
  \E p \in Procs :
    /\ MissingImage(p)
    /\ dfd.image_pipeline # None
    /\ loc[p].image_path = MissingPath
    /\ "label" \notin DOMAIN loc[p].result

\* analyze_audio has returned
AudioDone(p) == Done(p, "analyze_media") /\ obs[p].env.kind = "audio"

\* C20: analyze_audio never returns is_fake true; its confidence is 0.3 when
\* decoding and feature extraction succeed and 0.0 when they fail, and the
\* failure is returned as a record.
C20_AudioIsNeverFake ==
  \A p \in Procs :
    AudioDone(p) =>
      /\ ret[p].kind = "record"
      /\ ret[p].val.is_fake = FALSE
      /\ ret[p].val.confidence =
           (IF "raises" \in DOMAIN obs[p].env.out THEN 0 ELSE Conf(30))

\* C20 witness: the audio could not be decoded
C20_Witness ==
  \E p \in Procs :
    /\ AudioDone(p)
    /\ obs[p].env.out = [raises |-> "DecodeError"]
    /\ ret[p].val.confidence = 0
    /\ ret[p].val.media_type = "audio"

\* the MIME hints that are a str and name no image, video or audio
UnsupportedHints == {M_application_pdf, M_octet_stream, M_image, M_empty}

\* C21: analyze_media with a declared kind that is not image, video or audio
\* returns, without raising and without running an analyzer, a record with
\* is_fake false, confidence 0.0 and details that name the unsupported kind.
C21_UnsupportedKind ==
  \A p \in Procs :
    (Done(p, "analyze_media") /\ call[p].mime_type.type = "str"
       /\ call[p].mime_type.v \in UnsupportedHints) =>
      /\ ret[p].kind = "record"
      /\ ret[p].val.is_fake = FALSE
      /\ ret[p].val.confidence = 0
      /\ ret[p].val.details =
           <<[kind |-> "type de media non supporte",
              media_type |-> IF call[p].mime_type.v = M_application_pdf
                             THEN "document" ELSE "unknown"]>>
      /\ obs[p] = NoObs

\* C21 witness: a MIME hint "image" without a subtype is an unknown kind
C21_Witness ==
  \E p \in Procs :
    /\ Done(p, "analyze_media")
    /\ call[p].mime_type = Str(M_image)
    /\ ret[p].kind = "record"
    /\ ret[p].val.media_type = "unknown"

\* analyze_text has handed a text to the classifier
TextHanded(p) == pc[p] \in {"txt_wait", "txt_ready"}

\* C22: the text handed to the classifier is the first 5000 characters of a
\* longer input, and the unchanged input when it has at most 5000 characters.
C22_TruncatedPrefix ==
  \A p \in Procs :
    TextHanded(p) =>
      LET t == call[p].text
          h == loc[p].text
      IN  /\ TextLen(h) = (IF TextLen(t) > 5000 THEN 5000 ELSE TextLen(t))
          /\ h.lead <= t.lead /\ h.core <= t.core /\ h.trail <= t.trail
          /\ h.lead < t.lead => (h.core = 0 /\ h.trail = 0)
          /\ h.core < t.core => h.trail = 0
          /\ TextLen(t) <= 5000 => h = t

\* C22 witness: a text of 3 + 5001 + 3 characters keeps its first 5000
C22_Witness ==
  \E p \in Procs :
    /\ TextHanded(p)
    /\ call[p].text = [lead |-> 3, core |-> 5001, trail |-> 3]
    /\ loc[p].text = [lead |-> 3, core |-> 4997, trail |-> 0]

\* analyze_text has returned from a call that found the classifier loaded
\* and invoked it
Classified(p) ==
  /\ Done(p, "analyze_text")
  /\ ~obs[p].loaded
  /\ obs[p].env.kind = "text"

\* C23: with an initialised classifier that answers the same input the same
\* way, two analyze_text calls with identical input return identical
\* records, whatever calls happen before or between them.
C23_Idempotence ==
  \A p, q \in Procs :
    (Classified(p) /\ Classified(q)
       /\ call[p].text = call[q].text /\ obs[p].env.out = obs[q].env.out) =>
      ret[p] = ret[q]

\* C23 witness: two calls with the same text and the same classifier answer,
\* a load of the classifier having failed before them
C23_Witness ==
  \E p, q \in Procs :
    /\ p # q
    /\ Classified(p) /\ Classified(q)
    /\ call[p].text = call[q].text
    /\ obs[p].env.out = obs[q].env.out
    /\ "predictions" \in DOMAIN obs[p].env.out
    /\ Len(txtLoadLog) = 2
    /\ ret[p] = ret[q]

\* C27: the heuristic analysis reports is_fake exactly when both signals fire
\* (quality < 70 and edge ratio > 0.7); the confidence is one of 0, 0.2, 0.3,
\* 0.5, so the ceiling of 0.6 never binds.
C27_BothSignals ==
  \A p \in Procs :
    BasicAnalysed(p) =>
      LET qsig == "v" \in DOMAIN obs[p].env.q /\ obs[p].env.q.v < 70
          esig == "v" \in DOMAIN obs[p].env.e /\ obs[p].env.e.v > 70
          r == loc[p].result
      IN  /\ r.is_fake = (qsig /\ esig)
          /\ r.confidence \in {0, Conf(20), Conf(30), Conf(50)}
          /\ (r.confidence = Conf(50)) = (qsig /\ esig)
          /\ (r.confidence = Conf(30)) = (esig /\ ~qsig)
          /\ (r.confidence = Conf(20)) = (qsig /\ ~esig)

\* C27 witness: the edge signal alone, score 0.3, is not a suspect verdict
C27_Witness ==
  \E p \in Procs :
    /\ BasicAnalysed(p)
    /\ obs[p].env.q = [v |-> 100]
    /\ obs[p].env.e = [v |-> 71]
    /\ loc[p].result.is_fake = FALSE
    /\ loc[p].result.confidence = Conf(30)

\* the decoded frames whose image analysis returned its error record
FailedFrames(p) == { i \in DecodedFrames(p) : obs[p].frames[i].failed }

\* C28: a decoded frame whose image analysis failed is not skipped: it adds
\* confidence 0.0 to the average and nothing to the suspect count, so as many
\* confidences are averaged as frames were decoded.
C28_FailedFramesAreAveraged ==
  \A p \in Procs :
    /\ (InVideo(p) /\ pc[p] = "vid_loop") =>
         /\ Len(loc[p].confidences) = Cardinality(DecodedFrames(p))
         /\ loc[p].fake_count = Cardinality(SuspectFrameSet(p))
         /\ Sum(loc[p].confidences) = SumConfidence(obs[p].frames, DecodedFrames(p))
         /\ \A i \in FailedFrames(p) :
              obs[p].frames[i].confidence = 0 /\ ~obs[p].frames[i].is_fake
    /\ (VideoDone(p) /\ ret[p].val.details[1].kind # "erreur") =>
         ret[p].val.confidence * Cardinality(DecodedFrames(p))
           = SumConfidence(obs[p].frames, DecodedFrames(p))

\* C28 witness: of two decoded frames the first failed its analysis and the
\* second has confidence 1.0; the video confidence is 0.5
C28_Witness ==
  \E p \in Procs :
    /\ VideoDone(p)
    /\ DecodedFrames(p) = {1, 2}
    /\ FailedFrames(p) = {1}
    /\ obs[p].frames[2].confidence = Conf(100)
    /\ ret[p].val.confidence = Conf(50)

\* C29: every analyze_video call that opened the video capture has released
\* it when it returns, on every return path.
C29_CaptureIsReleased ==
  \A p \in Procs : VideoDone(p) => obs[p].released

\* the text message of `p` has been analysed and answered: the notice, then
\* one more reply
TextAnswered(p) ==
  /\ Done(p, "analyze_text")
  /\ hook[p].msg.type = "text"
  /\ "body" \in DOMAIN hook[p].msg
  /\ Len(hook[p].replies) = 2
  /\ hook[p].replies[1] = Notice("Analyse en cours")

\* C24: get_analysis_summary returns a summary for every record of
\* analyze_text, suspect or not, so the reply that follows the "analysis in
\* progress" notice is that summary and never the generic error notice.
C24_SummaryIsSent ==
  \A p \in Procs :
    TextAnswered(p) =>
      /\ get_analysis_summary(ret[p].val).kind = "record"
      /\ hook[p].replies[2].kind = "resume"

\* the GET request of `p` asks for the subscription with the configured token
GoodVerification(q) ==
  /\ q.mode.type = "str"
  /\ q.mode.v = "subscribe"
  /\ q.token.type = "str"
  /\ q.token.v = VERIFY_TOKEN

\* C25: every GET /webhook is answered with the challenge or with a 403: the
\* challenge exactly when hub.mode is "subscribe" and hub.verify_token is the
\* configured token, 403 otherwise, also when a parameter is absent.
C25_ChallengeOr403 ==
  \A p \in Procs :
    hook[p].request.method = "GET" =>
      /\ hook[p].response.kind = "record"
      /\ IF GoodVerification(hook[p].request)
         THEN /\ hook[p].response.val.status_code = 200
              /\ hook[p].response.val.content = hook[p].request.challenge
         ELSE hook[p].response.val.status_code = 403

\* the POST request of `p` has been answered
PostAnswered(p) == hook[p].request.method = "POST" /\ hook[p].stage = "responded"

\* the items of the payload of `p` in the order handle_post goes through them
PayloadItems(p) ==
  [i \in 1..(hook[p].request.n + hook[p].request.statuses) |->
     IF i <= hook[p].request.n
     THEN [item |-> "message", k |-> i]
     ELSE [item |-> "status", k |-> i - hook[p].request.n]]

\* C26: POST /webhook answers 200 for every payload, whatever fails while its
\* messages are processed, and after a message that failed the remaining
\* messages and statuses are still processed, in order.
C26_AlwaysAcknowledged ==
  \A p \in Procs :
    PostAnswered(p) =>
      /\ hook[p].response.kind = "record"
      /\ hook[p].response.val.status_code = 200
      /\ Len(hook[p].log) = Len(PayloadItems(p))
      /\ \A i \in DOMAIN hook[p].log :
           /\ hook[p].log[i].item = PayloadItems(p)[i].item
           /\ hook[p].log[i].k = PayloadItems(p)[i].k

C26_Witness ==
  \E p \in Procs :
    /\ PostAnswered(p)
    /\ Len(hook[p].log) = MaxMessages + MaxStatuses
    /\ hook[p].log[1].failed
    /\ ~hook[p].log[2].failed

\* the media messages of `p` whose download succeeded
Downloaded(p) == { i \in DOMAIN hook[p].log : hook[p].log[i].downloaded }

=============================================================================
